---- MODULE Spec2Model ----
(***************************************************************************)
(* Model of costmin.py: a script that builds a mixed-integer program for   *)
(* buying ceramic powders (lines 39-79), hands it to the CBC solver        *)
(* (line 82) and prints a detail view, the total cost and a summary table  *)
(* (lines 85-121).                                                         *)
(*                                                                         *)
(* Quantities are whole kilograms.  The objective is kept in hundredths of *)
(* a currency unit so that the penalty weights 0.02 and 0.05 are integers. *)
(* A Python dict is a function (its keys are the DOMAIN) together with the *)
(* order in which the script iterates over its keys.                       *)
(***************************************************************************)
EXTENDS Integers, Sequences, FiniteSets, TLC

VARIABLES demand, costs, ceramic_composition,
          pc, status, valued, x, z, p_plus, p_minus, printed, raised

vars == <<demand, costs, ceramic_composition,
          pc, status, valued, x, z, p_plus, p_minus, printed, raised>>

data == <<demand, costs, ceramic_composition>>

-----------------------------------------------------------------------------
(* Bounds of the model. *)

\* largest required quantity (kg) of one material for one line
MaxQty == 2

\* largest demand of a line
MaxDemand == 2

\* largest unit price in the single-line scenario
MaxPrice == 4

-----------------------------------------------------------------------------
(* Program constants. *)

\* prob += lpSum(x[i, "supplier 1", m] ...) >= 1
PrimaryFloor == 1

\* prob += lpSum(z[i, m, "supplier 3"] ...) <= 2
TertiaryCeiling == 2

\* 0.02 * lpSum(p_plus[i] ...), in hundredths
WPlus == 2

\* 0.05 * lpSum(p_minus[i] ...), in hundredths
WMinus == 5

\* the purchase cost, in hundredths
Scale == 100

\* the row format reads row[1] .. row[4]
TableColumns == 4

-----------------------------------------------------------------------------
(* Domain data. *)

\* A supplier key is written <<head, last>>: the key's text up to its last
\* character, and its last character, which the summary table takes (s[-1]).
Supplier1 == <<"supplier ", "1">>

Supplier2 == <<"supplier ", "2">>

Supplier3 == <<"supplier ", "3">>

\* the keys of costs, in the order "for s in costs" visits them
Suppliers == <<Supplier1, Supplier2, Supplier3>>

SupplierSet == {Suppliers[k] : k \in 1..Len(Suppliers)}

\* the materials, in the order the composition dicts list them
MaterialOrder == <<"white", "yellow", "pink", "gray">>

MaterialSet == {MaterialOrder[k] : k \in 1..Len(MaterialOrder)}

\* the names a line may have, in the order the dicts list them
LineNames == <<"A1", "A2">>

\* the keys of demand
Lines == DOMAIN demand

\* the keys of demand, in the order "for i in demand" visits them
LineOrder == SelectSeq(LineNames, LAMBDA i : i \in Lines)

\* the price rows of the costs table
SourceCosts ==
    <<[white |-> 35, yellow |-> 32, pink |-> 45, gray |-> 50],
      [white |-> 32, yellow |-> 20, pink |-> 30, gray |-> 40],
      [white |-> 24, yellow |-> 18, pink |-> 20, gray |-> 35]>>

\* the keys of ceramic_composition[i], in iteration order
Mats(i) ==
    SelectSeq(MaterialOrder, LAMBDA m : m \in DOMAIN ceramic_composition[i])

MatSet(i) == DOMAIN ceramic_composition[i]

-----------------------------------------------------------------------------
(* Helpers. *)

RECURSIVE SumOver(_, _)
\* the sum of f over the keys S
SumOver(f, S) ==
    IF S = {} THEN 0
    ELSE LET k == CHOOSE k \in S : TRUE
         IN  f[k] + SumOver(f, S \ {k})

\* the sum of the values of a function with a finite domain
lpSum(f) == SumOver(f, DOMAIN f)

EmptyFn == [k \in {} |-> 0]

Max(a, b) == IF a >= b THEN a ELSE b

SetMax(S) == CHOOSE v \in S : \A w \in S : w <= v

SetMin(S) == CHOOSE v \in S : \A w \in S : v <= w

\* the keys of x: (i, s, m) for i in demand for s in costs
\* for m in ceramic_composition[i]
XKeys == {k \in Lines \X SupplierSet \X MaterialSet : k[3] \in MatSet(k[1])}

\* the keys of z: (i, m, s) for i in demand
\* for m in ceramic_composition[i] for s in costs
ZKeys == {k \in Lines \X MaterialSet \X SupplierSet : k[2] \in MatSet(k[1])}

-----------------------------------------------------------------------------
(* The constraints, over the values xv, zv, pp, pm of x, z, p_plus, p_minus. *)

\* constraint 1 left out of the model
Constraint1Dropped(xv, zv, i) == TRUE

\* constraint 1 with the floor counted over the indicators
Constraint1OverZ(xv, zv, i) ==
    lpSum([m \in MatSet(i) |-> zv[i, m, Supplier1]]) >= PrimaryFloor

\* 1. lpSum(x[i, "supplier 1", m] for m in ceramic_composition[i]) >= 1
Constraint1(xv, zv, i) ==
    lpSum([m \in MatSet(i) |-> xv[i, Supplier1, m]]) >= PrimaryFloor

\* constraint 2 left out of the model
Constraint2Dropped(zv, i) == TRUE

\* 2. lpSum(z[i, m, "supplier 3"] for m in ceramic_composition[i]) <= 2
Constraint2(zv, i) ==
    lpSum([m \in MatSet(i) |-> zv[i, m, Supplier3]]) <= TertiaryCeiling

\* constraint 3 as an upper limit
Constraint3AtMost(xv, i, m) ==
    lpSum([s \in SupplierSet |-> xv[i, s, m]]) <= ceramic_composition[i][m]

\* 3. lpSum(x[i, s, m] for s in costs) == ceramic_composition[i][m]
Constraint3(xv, i, m) ==
    lpSum([s \in SupplierSet |-> xv[i, s, m]]) = ceramic_composition[i][m]

\* lpSum(x[i, s, m] for s in costs for m in ceramic_composition[i])
Purchased(xv, i) ==
    lpSum([k \in SupplierSet \X MatSet(i) |-> xv[i, k[1], k[2]]])

\* 4. (the purchases of the line) == demand[i] + p_plus[i] - p_minus[i],
\* with pp and pm the values of p_plus[i] and p_minus[i]
Constraint4(bought, pp, pm, i) == bought = demand[i] + pp - pm

\* constraint 5 without the rows that bind x to z
Constraint5Unbound(xv, zv, i, m) ==
    lpSum([s \in SupplierSet |-> zv[i, m, s]]) = 1

\* 5. lpSum(z[i, m, s] for s in costs) == 1, and for every s
\*    x[i, s, m] <= z[i, m, s] * ceramic_composition[i][m]
Constraint5(xv, zv, i, m) ==
    /\ lpSum([s \in SupplierSet |-> zv[i, m, s]]) = 1
    /\ \A s \in SupplierSet :
           xv[i, s, m] <= zv[i, m, s] * ceramic_composition[i][m]

\* the objective without its penalty terms
ObjectiveNoPenalty(a) ==
    Scale * lpSum([k \in DOMAIN a.x |-> a.x[k] * costs[k[2]][k[3]]])

\* lpSum(x[i, s, m] * costs[s][m] ...)
\*     + 0.02 * lpSum(p_plus[i] ...) + 0.05 * lpSum(p_minus[i] ...)
Objective(a) ==
    Scale * lpSum([k \in DOMAIN a.x |-> a.x[k] * costs[k[2]][k[3]]])
        + WPlus * lpSum(a.p_plus) + WMinus * lpSum(a.p_minus)

-----------------------------------------------------------------------------
(* The assignments of the program's variables. *)

\* the largest required quantity of the data
MaxReq == SetMax({0} \cup {ceramic_composition[k[1]][k[3]] : k \in XKeys})

\* x = LpVariable.dicts("x", ..., 0, None): no value below 0; the model
\* stops at the largest requirement, which constraint 3 never lets x exceed
XDomain == 0..MaxReq

\* z = LpVariable.dicts("z", ..., cat="Binary")
ZDomain == {0, 1}

\* the purchases of a line, at most
LineTotal(i) == lpSum(ceramic_composition[i])

\* p_plus, p_minus = LpVariable.dicts(..., 0, None): no value below 0; the
\* model stops where both penalties of a line can still exceed its deviation
PDomain == 0..SetMax({0} \cup {Max(LineTotal(i), demand[i]) : i \in Lines})

\* the values of x[i, *, m] and z[i, m, *] that satisfy the rows of
\* constraints 3 and 5 for the line i and the material m
PairCandidates(i, m) ==
    {a \in {[x |-> xv, z |-> zv] :
                xv \in {f \in [{<<i, s, m>> : s \in SupplierSet} -> XDomain] :
                           Constraint3(f, i, m)},
                zv \in [{<<i, m, s>> : s \in SupplierSet} -> ZDomain]} :
        Constraint5(a.x, a.z, i, m)}

RECURSIVE LineCandidatesUpTo(_, _)
\* the same for the first n materials of the line i
LineCandidatesUpTo(i, n) ==
    IF n = 0 THEN {[x |-> EmptyFn, z |-> EmptyFn]}
    ELSE {[x |-> a.x @@ b.x, z |-> a.z @@ b.z] :
              a \in LineCandidatesUpTo(i, n - 1),
              b \in PairCandidates(i, Mats(i)[n])}

\* the values of x and z of a line that satisfy constraints 3 and 5
LineCandidatesXZ(i) == LineCandidatesUpTo(i, Len(Mats(i)))

\* the values of x and z of a line that satisfy constraints 1, 2, 3 and 5
LineFeasibleXZ(i) ==
    {c \in LineCandidatesXZ(i) :
        Constraint1(c.x, c.z, i) /\ Constraint2(c.z, i)}

\* the values c of x and z for a line, with every p_plus[i] and p_minus[i]
\* that satisfy constraint 4
WithPenalties(c, i) ==
    LET bought == Purchased(c.x, i)
    IN  {[x |-> c.x, z |-> c.z, p_plus |-> (i :> t[1]), p_minus |-> (i :> t[2])] :
            t \in {u \in PDomain \X PDomain : Constraint4(bought, u[1], u[2], i)}}

\* the values of a line's variables that satisfy constraints 3, 4 and 5
LineCandidates(i) == UNION {WithPenalties(c, i) : c \in LineCandidatesXZ(i)}

\* the values of a line's variables that satisfy all its constraints
LineFeasible(i) == UNION {WithPenalties(c, i) : c \in LineFeasibleXZ(i)}

RECURSIVE Combine(_, _)
\* one assignment of the first n lines from each choice of per-line values
Combine(perLine, n) ==
    IF n = 0
    THEN {[x |-> EmptyFn, z |-> EmptyFn, p_plus |-> EmptyFn, p_minus |-> EmptyFn]}
    ELSE {[x |-> a.x @@ b.x, z |-> a.z @@ b.z,
           p_plus |-> a.p_plus @@ b.p_plus, p_minus |-> a.p_minus @@ b.p_minus] :
              a \in Combine(perLine, n - 1), b \in perLine[LineOrder[n]]}

\* the assignments that satisfy constraints 3, 4 and 5
Candidates == Combine([i \in Lines |-> LineCandidates(i)], Len(LineOrder))

\* the assignments that satisfy every constraint of prob
Feasible == Combine([i \in Lines |-> LineFeasible(i)], Len(LineOrder))

\* the solver's contract for a feasible model: an assignment of least objective
OptimalOf(F) ==
    IF F = {} THEN {}
    ELSE LET scored == {<<Objective(a), a>> : a \in F}
             best == SetMin({u[1] : u \in scored})
         IN  {u[2] : u \in {v \in scored : v[1] = best}}

-----------------------------------------------------------------------------
(* The script. *)

NoError == [type |-> "none", args |-> <<>>]

NothingPrinted == [detail |-> <<>>, total |-> <<>>, table |-> <<>>]

\* the (line, supplier, material) triples in the order the objective's
\* generator visits them
RECURSIVE Flatten(_)
Flatten(ss) == IF ss = <<>> THEN <<>> ELSE Head(ss) \o Flatten(Tail(ss))

ObjectiveOrder ==
    Flatten([a \in 1..Len(LineOrder) |->
        Flatten([b \in 1..Len(Suppliers) |->
            [c \in 1..Len(Mats(LineOrder[a])) |->
                <<LineOrder[a], Suppliers[b], Mats(LineOrder[a])[c]>>]])])

\* the lookups costs[s][m] of the objective that find no price
MissingLookups ==
    SelectSeq(ObjectiveOrder, LAMBDA k : k[3] \notin DOMAIN costs[k[2]])

\* a build that reads a missing price as 0
BuildModelDefaultPrice ==
    /\ pc = "build"
    /\ pc' = "solve"
    /\ x' = [k \in XKeys |-> 0]
    /\ z' = [k \in ZKeys |-> 0]
    /\ p_plus' = [i \in Lines |-> 0]
    /\ p_minus' = [i \in Lines |-> 0]
    /\ UNCHANGED <<data, status, valued, printed, raised>>

\* lines 39-79: the variables, the objective, the constraints.  The objective
\* reads costs[s][m]; a missing key raises KeyError(m) and ends the script.
BuildModel ==
    /\ pc = "build"
    /\ x' = [k \in XKeys |-> 0]
    /\ z' = [k \in ZKeys |-> 0]
    /\ p_plus' = [i \in Lines |-> 0]
    /\ p_minus' = [i \in Lines |-> 0]
    /\ IF MissingLookups # <<>>
       THEN /\ pc' = "failed"
            /\ raised' = [type |-> "KeyError", args |-> <<Head(MissingLookups)[3]>>]
       ELSE /\ pc' = "solve"
            /\ UNCHANGED raised
    /\ UNCHANGED <<data, status, valued, printed>>

\* every variable at 0
Zeros ==
    [x |-> [k \in XKeys |-> 0], z |-> [k \in ZKeys |-> 0],
     p_plus |-> [i \in Lines |-> 0], p_minus |-> [i \in Lines |-> 0]]

\* what prob.solve leaves in the variables.  Of a feasible model, an
\* assignment of least objective.  Of an infeasible one nothing is promised:
\* the values stay unset (varValue None), or are the 0 that the reader of the
\* solution file starts from, or a point where the search stopped, here a
\* best point of the relaxation without constraints 1 and 2.
SolveValues(F) ==
    IF F # {}
    THEN {[status |-> "Optimal", valued |-> TRUE, a |-> a] : a \in OptimalOf(F)}
    ELSE {[status |-> "Infeasible", valued |-> TRUE, a |-> a] :
              a \in {Zeros} \cup OptimalOf(Candidates)}
         \cup {[status |-> "Infeasible", valued |-> FALSE,
                 a |-> [x |-> x, z |-> z, p_plus |-> p_plus, p_minus |-> p_minus]]}

\* line 82: prob.solve(PULP_CBC_CMD(msg=False)); the status it returns is
\* dropped and the script goes on
Solve ==
    /\ pc = "solve"
    /\ \E r \in SolveValues(Feasible) :
          /\ status' = r.status
          /\ valued' = r.valued
          /\ x' = r.a.x
          /\ z' = r.a.z
          /\ p_plus' = r.a.p_plus
          /\ p_minus' = r.a.p_minus
    /\ pc' = "report"
    /\ UNCHANGED <<data, printed, raised>>

\* f"supplier {s[-1]}"
ShortLabel(s) == <<"supplier ", s[Len(s)]>>

\* row.append("0")
Sentinel == <<"0">>

\* the (material, supplier) pairs of a line in the order the detail view
\* visits them: for m in ceramic_composition[i]: for s in costs
DetailOrder(i) ==
    Flatten([a \in 1..Len(Mats(i)) |->
        [b \in 1..Len(Suppliers) |-> <<Mats(i)[a], Suppliers[b]>>]])

\* lines 85-91: a heading for every line, and under it every pair with
\* x[i, s, m].varValue != 0 (None != 0 is true: an unset value is printed)
DetailView ==
    [a \in 1..Len(LineOrder) |->
        LET i == LineOrder[a]
            shown == SelectSeq(DetailOrder(i),
                         LAMBDA k : ~valued \/ x[i, k[2], k[1]] # 0)
        IN  [line |-> i,
             entries |-> [b \in 1..Len(shown) |->
                 [material |-> shown[b][1], supplier |-> shown[b][2],
                  quantity |-> x[i, shown[b][2], shown[b][1]]]]]]

\* a cell that names the supplier whose indicator is 1
CellByIndicator(i, m) ==
    LET hits == SelectSeq(Suppliers, LAMBDA s : z[i, m, s] = 1)
    IN  IF hits # <<>> THEN ShortLabel(Head(hits)) ELSE Sentinel

\* lines 106-114: the label of the first supplier with a quantity above 0,
\* or "0"
Cell(i, m) ==
    LET hits == SelectSeq(Suppliers, LAMBDA s : x[i, s, m] > 0)
    IN  IF hits # <<>> THEN ShortLabel(Head(hits)) ELSE Sentinel

\* lines 105-114: row = [i] and one cell for every material of the line
Row(i) == <<i>> \o [k \in 1..Len(Mats(i)) |-> Cell(i, Mats(i)[k])]

\* line 115: the row as formatted, row[0] and row[1] .. row[4]
FormattedRow(i) ==
    [line |-> Row(i)[1], cells |-> SubSeq(Row(i), 2, TableColumns + 1)]

\* the exception generate_formatted_table_with_suppliers ends with:
\* None > 0 raises TypeError at line 109, row[k] beyond the row raises
\* IndexError at line 115
TableError ==
    IF ~valued /\ XKeys # {} THEN "TypeError"
    ELSE IF \E i \in Lines : Len(Row(i)) < TableColumns + 1 THEN "IndexError"
    ELSE "none"

\* lines 85-121: the detail view, the total cost, the summary table; the
\* table is printed only if building it raised nothing
Report ==
    /\ pc = "report"
    /\ printed' = [detail |-> DetailView,
                   total |-> <<Objective([x |-> x, z |-> z,
                                p_plus |-> p_plus, p_minus |-> p_minus])>>,
                   table |-> IF TableError = "none"
                             THEN [a \in 1..Len(LineOrder) |->
                                      FormattedRow(LineOrder[a])]
                             ELSE <<>>]
    /\ raised' = [type |-> TableError, args |-> <<>>]
    /\ pc' = IF TableError = "none" THEN "done" ELSE "failed"
    /\ UNCHANGED <<data, status, valued, x, z, p_plus, p_minus>>

-----------------------------------------------------------------------------
(* The specifications. *)

\* the material sets a composition may list
MaterialSets == {{"white", "yellow"}, MaterialSet}

Compositions == UNION {[ms -> 0..MaxQty] : ms \in MaterialSets}

\* the price rows of the source, given to the suppliers in turn: with k = 0
\* as in the source, else the first supplier has the row k + 1, the next one
\* the row after it, and so on round
Table(k) ==
    [s \in SupplierSet |->
        SourceCosts[(((CHOOSE n \in 1..Len(Suppliers) : Suppliers[n] = s) + k - 1)
                         % Len(SourceCosts)) + 1]]

FullTables == {Table(k) : k \in 0..(Len(SourceCosts) - 1)}

\* a table with the price of one (supplier, material) pair left out
Without(t, h) ==
    [s \in SupplierSet |->
        IF s = h[1] THEN [m \in DOMAIN t[s] \ {h[2]} |-> t[s][m]] ELSE t[s]]

CostTables ==
    FullTables \cup {Without(Table(0), h) : h \in SupplierSet \X MaterialSet}

Start ==
    /\ pc = "build"
    /\ status = "Not Solved"
    /\ valued = FALSE
    /\ x = EmptyFn
    /\ z = EmptyFn
    /\ p_plus = EmptyFn
    /\ p_minus = EmptyFn
    /\ printed = NothingPrinted
    /\ raised = NoError

\* one line with any composition and any table, or, with the table of the
\* source, two lines: one of two materials and one of a single material
Init ==
    /\ \/ /\ demand \in [{LineNames[1]} -> 1..MaxDemand]
          /\ ceramic_composition \in [DOMAIN demand -> Compositions]
          /\ costs \in CostTables
       \/ /\ demand \in [{LineNames[1], LineNames[2]} -> 1..MaxDemand]
          /\ ceramic_composition \in
                 {[i \in DOMAIN demand |-> IF i = LineNames[1] THEN c ELSE d] :
                     c \in [{"white", "yellow"} -> 0..MaxQty],
                     d \in [{"yellow"} -> 0..MaxQty]}
          /\ costs = Table(0)
    /\ Start

Next == BuildModel \/ Solve \/ Report

Spec == Init /\ [][Next]_vars

\* the single-line scenario: demand 10, composition {white: 6, yellow: 4},
\* three suppliers with distinct prices
InitScenario ==
    /\ demand = [i \in {LineNames[1]} |-> 10]
    /\ ceramic_composition = [i \in {LineNames[1]} |-> [white |-> 6, yellow |-> 4]]
    /\ costs \in {t \in [SupplierSet -> [{"white", "yellow"} -> 1..MaxPrice]] :
                     \A m \in {"white", "yellow"} : \A s, u \in SupplierSet :
                         t[s][m] = t[u][m] => s = u}
    /\ Start

SpecScenario == InitScenario /\ [][Next]_vars

-----------------------------------------------------------------------------
(* Properties. *)

\* the values the program's variables hold
Current == [x |-> x, z |-> z, p_plus |-> p_plus, p_minus |-> p_minus]

\* the solver returned an optimal assignment
Optimal == status = "Optimal"

\* the suppliers whose indicator is 1 for the line i and the material m
Chosen(a, i, m) == {s \in SupplierSet : a.z[i, m, s] = 1}

\* every material of the line i is bought in exactly its required quantity
MaterialConsistent(a, i) ==
    \A m \in MatSet(i) :
        /\ lpSum([s \in SupplierSet |-> a.x[i, s, m]]) = ceramic_composition[i][m]
        /\ ceramic_composition[i][m] = 0 => \A s \in SupplierSet : a.x[i, s, m] = 0

\* C1: every assignment that satisfies the constraints of the model (the
\* values of x and z of a line that satisfy constraints 1, 2, 3 and 5; the
\* penalties absorb constraint 4), and so the assignment an optimal solve
\* returns, buys of every material of every
\* line exactly the required quantity, summed over the suppliers; of a
\* material required in quantity 0 it buys 0 from every supplier.
C1_MaterialConsistency ==
    /\ pc = "solve" => \A i \in Lines : \A a \in LineFeasibleXZ(i) :
                           MaterialConsistent(a, i)
    /\ Optimal => \A i \in Lines : MaterialConsistent(Current, i)

\* C1 witness: an optimal assignment for a line with a material required in
\* quantity 0 and a material required in a positive quantity.
C1_Witness ==
    /\ Optimal
    /\ \E i \in Lines : \E m, n \in MatSet(i) :
           ceramic_composition[i][m] = 0 /\ ceramic_composition[i][n] > 0

\* one supplier is chosen for every material of the line i, and nothing is
\* bought from another
SingleSupplier(a, i) ==
    \A m \in MatSet(i) :
        /\ Cardinality(Chosen(a, i, m)) = 1
        /\ \A s \in SupplierSet :
               /\ a.x[i, s, m] > 0 => s \in Chosen(a, i, m)
               /\ a.z[i, m, s] = 0 => a.x[i, s, m] = 0
               /\ a.x[i, s, m] <= ceramic_composition[i][m]

\* C2: in every assignment that satisfies the constraints, every material of
\* every line has exactly one supplier with indicator 1, every supplier with
\* a positive quantity is that supplier, and no quantity exceeds the
\* requirement.
C2_SingleSupplier ==
    /\ pc = "solve" => \A i \in Lines : \A a \in LineFeasibleXZ(i) :
                           SingleSupplier(a, i)
    /\ Optimal => \A i \in Lines : SingleSupplier(Current, i)

\* C2 witness: an optimal assignment that buys two or more kilograms of one
\* material, which two suppliers could have shared.
C2_Witness ==
    /\ Optimal
    /\ \E k \in XKeys : x[k] >= 2

\* C3: in every optimal assignment every line buys at least one kilogram in
\* total from supplier 1.
C3_PrimaryFloor ==
    Optimal =>
        \A i \in Lines :
            lpSum([m \in MatSet(i) |-> x[i, Supplier1, m]]) >= 1

\* C3 witness: an optimal assignment where supplier 1 asks the highest price
\* for every material and still sells to the line, which also has a material
\* required in quantity 0.
C3_Witness ==
    /\ Optimal
    /\ \A s \in SupplierSet \ {Supplier1} : \A m \in DOMAIN costs[s] :
           m \in DOMAIN costs[Supplier1] /\ costs[s][m] < costs[Supplier1][m]
    /\ \E i \in Lines : \E m, n \in MatSet(i) :
           x[i, Supplier1, m] >= 1 /\ ceramic_composition[i][n] = 0

\* C4: in every optimal assignment every line has at most 2 materials with
\* indicator 1 for supplier 3, and so at most 2 materials bought from it.
C4_TertiaryCeiling ==
    Optimal =>
        \A i \in Lines :
            /\ Cardinality({m \in MatSet(i) : z[i, m, Supplier3] = 1}) <= 2
            /\ Cardinality({m \in MatSet(i) : x[i, Supplier3, m] > 0}) <= 2

\* C4 witness: an optimal assignment for a line that needs all four
\* materials, with supplier 3 the cheapest for each, that buys two of them
\* from supplier 3.
C4_Witness ==
    /\ Optimal
    /\ \A s \in SupplierSet \ {Supplier3} : \A m \in DOMAIN costs[s] :
           m \in DOMAIN costs[Supplier3] /\ costs[Supplier3][m] < costs[s][m]
    /\ \E i \in Lines :
           /\ Cardinality({m \in MatSet(i) : ceramic_composition[i][m] > 0}) = 4
           /\ Cardinality({m \in MatSet(i) : x[i, Supplier3, m] > 0}) = 2

\* the price paid for the required quantities at the chosen suppliers
ChosenCost ==
    lpSum([k \in {u \in XKeys : z[u[1], u[3], u[2]] = 1} |->
               ceramic_composition[k[1]][k[3]] * costs[k[2]][k[3]]])

\* C5: in every optimal assignment, with T the sum of a line's required
\* quantities and D its demand, p_plus is T - D and p_minus 0 if T > D,
\* p_minus is D - T and p_plus 0 if T < D, both are 0 if T = D; the total
\* printed is the purchase cost plus 0.02 per unit of p_plus and 0.05 per
\* unit of p_minus.
C5_DemandPenalty ==
    Optimal =>
        /\ \A i \in Lines :
               LET T == LineTotal(i)
                   D == demand[i]
               IN  /\ T > D => p_plus[i] = T - D /\ p_minus[i] = 0
                   /\ T < D => p_minus[i] = D - T /\ p_plus[i] = 0
                   /\ T = D => p_plus[i] = 0 /\ p_minus[i] = 0
        /\ printed.total # <<>> =>
               printed.total[1] =
                   100 * ChosenCost
                     + 2 * lpSum([i \in Lines |-> Max(LineTotal(i) - demand[i], 0)])
                     + 5 * lpSum([i \in Lines |-> Max(demand[i] - LineTotal(i), 0)])

\* C5 witness: the total is printed for an optimal assignment of two lines,
\* one whose required quantities add up to more than its demand and one
\* whose required quantities add up to less.
C5_Witness ==
    /\ Optimal
    /\ printed.total # <<>>
    /\ \E i \in Lines : LineTotal(i) > demand[i] /\ p_plus[i] > 0
    /\ \E i \in Lines : LineTotal(i) < demand[i] /\ p_minus[i] > 0

\* the ways to give every material of the line i one supplier such that
\* supplier 1 sells at least 1 kg and supplier 3 at most 2 materials
Sourcings(i) ==
    {f \in [MatSet(i) -> SupplierSet] :
        /\ lpSum([m \in {n \in MatSet(i) : f[n] = Supplier1} |->
                     ceramic_composition[i][m]]) >= 1
        /\ Cardinality({m \in MatSet(i) : f[m] = Supplier3}) <= 2}

\* the price of the required quantities of the line i under the sourcing f
SourcingCost(i, f) ==
    lpSum([m \in MatSet(i) |-> ceramic_composition[i][m] * costs[f[m]][m]])

\* C6: for one line with demand 10 and composition {white: 6, yellow: 4} and
\* three suppliers with distinct prices, the solve is optimal, each material
\* comes whole from one supplier (6 kg of white, 4 kg of yellow), both
\* penalties are 0, and the objective is the least price of a sourcing that
\* gives supplier 1 at least 1 kg and supplier 3 at most 2 materials.
C6_SingleLineScenario ==
    status # "Not Solved" =>
        /\ Optimal
        /\ \A i \in Lines :
               /\ \E s \in SupplierSet : x[i, s, "white"] = 6
               /\ \E s \in SupplierSet : x[i, s, "yellow"] = 4
               /\ lpSum([s \in SupplierSet |-> x[i, s, "white"]]) = 6
               /\ lpSum([s \in SupplierSet |-> x[i, s, "yellow"]]) = 4
               /\ p_plus[i] = 0 /\ p_minus[i] = 0
               /\ Objective(Current)
                      = 100 * SetMin({SourcingCost(i, f) : f \in Sourcings(i)})

\* C6 witness: the scenario is solved with supplier 1 the dearest for both
\* materials, so that the floor decides which one it sells.
C6_Witness ==
    /\ Optimal
    /\ demand = [i \in {"A1"} |-> 10]
    /\ ceramic_composition = [i \in {"A1"} |-> [white |-> 6, yellow |-> 4]]
    /\ \A s \in SupplierSet \ {Supplier1} : \A m \in DOMAIN costs[s] :
           costs[s][m] < costs[Supplier1][m]
    /\ \E m \in {"white", "yellow"} : x["A1", Supplier1, m] > 0

\* the (line, supplier, material) triples whose price the objective reads
\* and costs does not hold
MissingPrices ==
    {k \in XKeys : k[3] \notin DOMAIN costs[k[2]]}

C8_NoReportUnlessOptimal ==
    ~Optimal => printed = NothingPrinted

\* the kilograms the line i buys from supplier s, by the indicators
KgFrom(a, i, s) ==
    lpSum([m \in {n \in MatSet(i) : a.z[i, n, s] = 1} |->
               ceramic_composition[i][m]])

\* the materials of the line i whose indicator names supplier s
MaterialsFrom(a, i, s) == {m \in MatSet(i) : a.z[i, m, s] = 1}

\* C9 as stated: the floor, like the ceiling, counts materials by their
\* indicators: of the values of x and z that satisfy constraints 3 and 5 the
\* model admits those with at least 1 material from supplier 1 and at most
\* 2 from supplier 3, however many kilograms supplier 1 sells.
C9_FloorOverIndicators ==
    pc = "solve" =>
        \A i \in Lines :
            LET admitted == LineFeasibleXZ(i)
            IN  \A a \in LineCandidatesXZ(i) :
                    a \in admitted <=>
                        /\ Cardinality(MaterialsFrom(a, i, Supplier1)) >= 1
                        /\ Cardinality(MaterialsFrom(a, i, Supplier3)) <= 2

\* C9 as amended: the ceiling counts materials by their indicators and the
\* floor counts kilograms: of the values of x and z that satisfy constraints
\* 3 and 5 the model admits those that buy at least 1 kg from supplier 1 and
\* have at most 2 materials with indicator 1 for supplier 3.
C9_FloorOverKilograms ==
    pc = "solve" =>
        \A i \in Lines :
            LET admitted == LineFeasibleXZ(i)
            IN  \A a \in LineCandidatesXZ(i) :
                    a \in admitted <=>
                        /\ KgFrom(a, i, Supplier1) >= 1
                        /\ Cardinality(MaterialsFrom(a, i, Supplier3)) <= 2

\* C9 witness: the model is built and rejects an assignment that names
\* supplier 1 for a material but buys less than 1 kg from it, and admits one
\* that names supplier 3 for two materials of which it buys nothing.
C9_Witness ==
    /\ pc = "solve"
    /\ \E i \in Lines :
           /\ \E a \in LineCandidatesXZ(i) \ LineFeasibleXZ(i) :
                  /\ MaterialsFrom(a, i, Supplier1) # {}
                  /\ Cardinality(MaterialsFrom(a, i, Supplier3)) <= 2
           /\ \E a \in LineFeasibleXZ(i) :
                  /\ Cardinality(MaterialsFrom(a, i, Supplier3)) = 2
                  /\ KgFrom(a, i, Supplier3) = 0

\* the summary table was printed for an optimal assignment
TablePrinted == Optimal /\ pc = "done"

====
